---- MODULE Spec2Model ----
(***************************************************************************)
(* Model of the SMS platform's worker and campaign API:                    *)
(*   - apps/api routes/campaigns.ts   (update, start, pause)               *)
(*   - apps/api routes/sessions.ts    (connect, disconnect, status sink)   *)
(*   - apps/worker jobs/send-message.ts (handleSendMessage and helpers)    *)
(*   - apps/worker jobs/session.ts    (connect and disconnect jobs, poll)  *)
(*   - apps/worker index.ts           (registry, pg-boss, health check,    *)
(*                                     SIGTERM handler)                    *)
(* Persisted rows (campaigns, messages, sessions, contacts), the pg-boss   *)
(* send-message queue, the process-wide registry `sessions`, the           *)
(* GoogleMessagesClient objects and the scratch files of image jobs are    *)
(* the state.  Every await of a job                                        *)
(* handler that another handler can observe is a step of its own.          *)
(***************************************************************************)
EXTENDS Integers, Sequences, FiniteSets, TLC

(* ------------------------------ bounds -------------------------------- *)
\* rows in the messages table
MaxMessages == 2
\* GoogleMessagesClient objects that are referenced at the same time
MaxHandles == 3
\* browser contexts that nothing references any more are counted up to here
MaxLeaked == 1
\* session-connect jobs the API enqueues
MaxConnects == 1
\* session-disconnect jobs the API enqueues
MaxDisconnects == 2
\* rows in the contacts table
NContacts == 3
\* Math.random() takes the values k / RandomDen, 0 <= k < RandomDen
RandomDen == 4
MaxTemplateLen == 2
MaxStarts == 2

(* ------------------------- program constants -------------------------- *)
\* retryLimit of the send-message jobs
QueueRetryLimit == 3
\* messages.max_attempts default
DefaultMaxAttempts == 3
\* base of the local backoff, seconds
RetryBaseSeconds == 60
\* teamSize of the send-message worker
WorkerConcurrency == 2
\* retryLimit of the jobs the API sends without options of their own
SessionRetryLimit == 3

\* createCampaignSchema: throttleMinDelayMs in [1000, 60000], default 3000
ThrottleFloor == 1000
ThrottleMinCeiling == 60000
DefaultThrottleMin == 3000
\* createCampaignSchema: throttleMaxDelayMs in [1000, 120000], default 8000
ThrottleMaxCeiling == 120000
DefaultThrottleMax == 8000

\* the values of the two throttle fields the model creates campaigns with
ThrottleMinValues == {ThrottleFloor, DefaultThrottleMin, ThrottleMinCeiling}
ThrottleMaxValues == {ThrottleFloor, DefaultThrottleMax, ThrottleMaxCeiling}

Tenants == {"t1", "t2"}
Tags == {"a", "b"}
ContactIds == 1..NContacts
CampaignIds == {"c1"}
HandleIds == 1..MaxHandles
NoHandle == 0

CampaignStatuses == {"draft", "scheduled", "running", "paused", "completed", "cancelled"}
SessionStatuses == {"connected", "disconnected", "needs-qr", "error"}
DetectStates == {"connected", "needs-qr", "error"}
TerminalStatuses == {"sent", "failed", "cancelled"}

VARIABLES
    contacts,   \* contacts rows: id -> [tenant, opted_out, tags]
    campaigns,  \* campaigns rows: id -> record
    messages,   \* messages rows in insertion order (the index is the id)
    sessions,   \* sessions rows: tenant -> [status, qr_code, last_seen]
    queue,      \* pg-boss send-message jobs in insertion order
    registry,   \* the worker's Map tenant -> client (NoHandle: no entry)
    handles,    \* GoogleMessagesClient objects: id -> [tenant, live, ready, launches]
    leaked,     \* tenant -> browser contexts still open that no variable references
    connects,   \* session-connect jobs
    disconnects,\* session-disconnect jobs
    audit,      \* the run of the periodic health check: [pc, rows, tenant, client]
    sink,       \* whether POST /sessions/internal/update answers: "up" or "down"
    shutdown,   \* the worker process: "running", "stopping", "closing" or "exited"
    internal,   \* POST /sessions/internal/update: [key, header, emitted], the
                \* server's INTERNAL_API_KEY and the last request it handled
    starts,     \* POST /campaigns/:id/start requests between their checks and writes
    scratch     \* the messages whose /tmp/<messageId><ext> file is on disk

vars == <<contacts, campaigns, messages, sessions, queue, registry, handles, leaked,
          connects, disconnects, audit, sink, shutdown, internal, starts, scratch>>

(* ------------------------------ helpers ------------------------------- *)
Min(a, b) == IF a < b THEN a ELSE b

RECURSIVE Pow2(_)
Pow2(n) == IF n = 0 THEN 1 ELSE 2 * Pow2(n - 1)

\* the health check between two runs
IdleAudit == [pc |-> "idle", rows |-> {}, tenant |-> "-", client |-> NoHandle]

\* a client object that was never constructed (a free slot)
BlankHandle == [tenant |-> "-", live |-> FALSE, ready |-> FALSE, launches |-> 0]

\* new GoogleMessagesClient(tenantId, sessionsPath): context = null, isReady = false
NewClient(t) == [tenant |-> t, live |-> FALSE, ready |-> FALSE, launches |-> 0]

\* client.launch(): a browser context is opened and stored in this.context
Launch(h) == [h EXCEPT !.live = TRUE, !.launches = Min(h.launches + 1, 2)]

\* client.close(): closes this.context if there is one
Close(h) == [h EXCEPT !.live = FALSE, !.ready = FALSE]

\* the states detectState() can return on a client: 'error' without a page
DetectOutcomes(h) == IF h.live THEN DetectStates ELSE {"error"}

\* detectState() sets isReady when it returns 'connected'
AfterDetect(h, st) == IF st = "connected" THEN [h EXCEPT !.ready = TRUE] ELSE h

\* the values checkHealth() can return
HealthOutcomes(h) == IF h.live /\ h.ready THEN {TRUE, FALSE} ELSE {FALSE}

\* whether sendText/sendImage get past their `!this.page || !this.isReady` guard
Usable(h) == h.live /\ h.ready

\* the worker process has not exited: its handlers and timers still run
Alive == shutdown # "exited"

(* ------------------- handle references and leaks ---------------------- *)
\* the client objects some variable of the worker still refers to
Referenced(reg, q, cj, au) ==
    {reg[t] : t \in Tenants}
        \cup {q[i].client : i \in 1..Len(q)}
        \cup {cj[i].client : i \in 1..Len(cj)}
        \cup {au.client}

\* clients that became unreachable: nothing can close their context any more
Dropped(hs, reg, q, cj, au) ==
    {h \in HandleIds : hs[h] # BlankHandle /\ h \notin Referenced(reg, q, cj, au)}

LeakedAfter(hs, reg, q, cj, au, extra) ==
    [t \in Tenants |->
        Min(MaxLeaked,
            leaked[t] + extra[t]
              + Cardinality({h \in Dropped(hs, reg, q, cj, au) :
                                hs[h].tenant = t /\ hs[h].live}))]

NoExtra == [t \in Tenants |-> 0]

\* the slot a newly constructed client takes
FreeHandles == {h \in HandleIds : handles[h] = BlankHandle
                                    /\ h \notin Referenced(registry, queue, connects, audit)}
FreshHandle == CHOOSE h \in FreeHandles : \A g \in FreeHandles : h <= g

\* The number of a client object is not observable: after every step the
\* clients are renumbered in the order in which the registry, the send jobs,
\* the connect jobs and the health check refer to them.
TenantSeq == <<"t1", "t2">>

RefList(reg, q, cj, au) ==
    [i \in 1..Len(TenantSeq) |-> reg[TenantSeq[i]]]
        \o [i \in 1..Len(q) |-> q[i].client]
        \o [i \in 1..Len(cj) |-> cj[i].client]
        \o <<au.client>>

Rank(h, L) ==
    IF h = NoHandle THEN NoHandle
    ELSE LET first == CHOOSE k \in 1..Len(L) : L[k] = h /\ \A n \in 1..(k - 1) : L[n] # h
         IN  Cardinality({L[n] : n \in 1..first} \ {NoHandle})

\* the worker's state after a step, with unreachable clients accounted for
WorkerAudit(hs, reg, q, cj, au, extra) ==
    LET L == RefList(reg, q, cj, au)
        refs == Referenced(reg, q, cj, au) \ {NoHandle}
    IN  /\ handles' = [n \in HandleIds |->
                          IF \E h \in refs : Rank(h, L) = n
                          THEN hs[CHOOSE h \in refs : Rank(h, L) = n]
                          ELSE BlankHandle]
        /\ registry' = [t \in Tenants |-> Rank(reg[t], L)]
        /\ queue' = [i \in 1..Len(q) |-> [q[i] EXCEPT !.client = Rank(@, L)]]
        /\ connects' = [i \in 1..Len(cj) |-> [cj[i] EXCEPT !.client = Rank(@, L)]]
        /\ audit' = [au EXCEPT !.client = Rank(@, L)]
        /\ leaked' = LeakedAfter(hs, reg, q, cj, au, extra)

\* the same after a step that leaves the health check where it is
WorkerState(hs, reg, q, cj, extra) == WorkerAudit(hs, reg, q, cj, audit, extra)

(* ------------------------ campaign API: start ------------------------- *)
\* the contacts query without its opted_out = FALSE condition
EligibleContacts_WithOptedOut(c) ==
    {k \in ContactIds :
        /\ contacts[k].tenant = campaigns[c].tenant
        /\ (~campaigns[c].target_all /\ campaigns[c].target_tags # {})
              => contacts[k].tags \cap campaigns[c].target_tags # {}}

\* the contacts query of POST /campaigns/:id/start
EligibleContacts(c) ==
    {k \in ContactIds :
        /\ contacts[k].tenant = campaigns[c].tenant
        /\ ~contacts[k].opted_out
        /\ (~campaigns[c].target_all /\ campaigns[c].target_tags # {})
              => contacts[k].tags \cap campaigns[c].target_tags # {}}

\* the rows of a query come in some order; the model takes the order of the ids
RECURSIVE SetToSeq(_)
SetToSeq(S) ==
    IF S = {} THEN <<>>
    ELSE LET x == CHOOSE y \in S : \A z \in S : y <= z
         IN  <<x>> \o SetToSeq(S \ {x})

(* template rendering: a text is a sequence of pieces, each one a placeholder
   or a run of characters holding no placeholder *)
FieldKeys == {"f", "g"}
NamePlaceholders == {"{nome}", "{name}"}
Placeholder(key) == IF key = "f" THEN "{f}" ELSE "{g}"
Placeholders == NamePlaceholders \cup {Placeholder(key) : key \in FieldKeys}

\* what String.prototype.replace inserts for a match: the replacement string is
\* a pattern, in which $& stands for the matched text
Expand(value, matched) == IF value = "$&" THEN matched ELSE value

\* bodyText.replace(new RegExp(ph, 'gi'), value): every piece that is ph
ReplaceAll(body, ph, value) ==
    [i \in DOMAIN body |-> IF body[i] = ph THEN Expand(value, ph) ELSE body[i]]

\* the loop over Object.entries(contact.custom_fields || {}): one replace per
\* field the contact has, in the order of the entries
RECURSIVE RenderFields(_, _)
RenderFields(body, fields) ==
    IF fields = <<>> THEN body
    ELSE RenderFields(ReplaceAll(body, Placeholder(Head(fields)[1]), Head(fields)[2]),
                      Tail(fields))

\* bodyText of the start loop: {nome}, then {name}, then the custom fields
Render(template, contact) ==
    RenderFields(ReplaceAll(ReplaceAll(template, "{nome}", contact.name),
                            "{name}", contact.name),
                 contact.custom_fields)

\* the messages row INSERTed for contact k: the other columns take their defaults;
\* counted is no column: it records how often the row was added to a campaign counter
NewMessage(c, k) ==
    [campaign |-> c, contact |-> k, tenant |-> campaigns[c].tenant,
     body_text |-> Render(campaigns[c].template_text, contacts[k]),
     status |-> "queued", attempts |-> 0, max_attempts |-> DefaultMaxAttempts,
     fallback_used |-> FALSE, retry_delay |-> 0, error |-> FALSE, counted |-> 0]

\* delay = Math.floor(Math.random() * (max - min) + min) with Math.random() = k / RandomDen
StartDelay(camp, k) ==
    ((k * (camp.throttle_max_delay_ms - camp.throttle_min_delay_ms)) \div RandomDen)
        + camp.throttle_min_delay_ms

\* the delays a start can draw for a job of the campaign
StartDelays(camp) == {StartDelay(camp, k) : k \in 0..(RandomDen - 1)}

\* the job queue.send('send-message', jobData, { startAfter: d, ... }) creates
\* for message id m
NewJob(c, m, d) ==
    [messageId |-> m, tenant |-> campaigns[c].tenant, startAfter |-> d,
     type |-> IF campaigns[c].type = "image" THEN "send_image" ELSE "send_text",
     retrycount |-> 0, pc |-> "waiting", client |-> NoHandle,
     calls |-> <<>>, success |-> FALSE, fallbackUsed |-> FALSE, cause |-> "-"]

\* a start route without the check of the session row
StartAccepted_NoSessionCheck(t, c) ==
    /\ campaigns[c].tenant = t
    /\ campaigns[c].status \in {"draft", "scheduled", "paused"}
    /\ EligibleContacts(c) # {}

\* the request passes the status check, the session check and the empty check
StartAccepted(t, c) ==
    /\ campaigns[c].tenant = t
    /\ campaigns[c].status \in {"draft", "scheduled", "paused"}
    /\ sessions[t].status = "connected"
    /\ EligibleContacts(c) # {}

\* POST /campaigns/:id/start by a user of tenant t
StartCampaign(t, c) ==
    /\ StartAccepted(t, c)
    /\ LET ks == SetToSeq(EligibleContacts(c))
           n  == Len(ks)
           base == Len(messages)
       IN  /\ base + n <= MaxMessages
           /\ campaigns' = [campaigns EXCEPT ![c].status = "running",
                                             ![c].total_recipients = n]
           /\ messages' = messages \o [i \in 1..n |-> NewMessage(c, ks[i])]
           /\ \E ds \in [1..n -> StartDelays(campaigns[c])] :
                queue' = queue \o [i \in 1..n |-> NewJob(c, base + i, ds[i])]
    /\ UNCHANGED <<internal, starts, shutdown, scratch, disconnects, audit, sink, contacts, sessions, registry, handles, leaked, connects>>

(* the start route as the requests of several clients run it: every await
   is a point where another request can run. The three SELECTs and their checks
   are one step, the UPDATE with the INSERTs and queue sends another *)
\* the campaign, session and contacts queries of one request and their checks:
\* an accepted request goes on with the contact rows it has read
StartRead(t, c) ==
    /\ Len(starts) < MaxStarts
    /\ StartAccepted(t, c)
    /\ starts' = Append(starts, [tenant |-> t, campaign |-> c, pc |-> "read",
                                 rows |-> SetToSeq(EligibleContacts(c))])
    /\ UNCHANGED <<internal, shutdown, scratch, disconnects, audit, sink, contacts, campaigns, messages, sessions, queue, registry, handles, leaked, connects>>

\* the UPDATE of the campaign row and the loop over the rows read before
StartWrite(i) ==
    /\ i \in DOMAIN starts
    /\ starts[i].pc = "read"
    /\ LET c == starts[i].campaign
           ks == starts[i].rows
           n  == Len(ks)
           base == Len(messages)
       IN  /\ base + n <= MaxMessages
           /\ campaigns' = [campaigns EXCEPT ![c].status = "running",
                                             ![c].total_recipients = n]
           /\ messages' = messages \o [x \in 1..n |-> NewMessage(c, ks[x])]
           /\ \E ds \in [1..n -> StartDelays(campaigns[c])] :
                queue' = queue \o [x \in 1..n |-> NewJob(c, base + x, ds[x])]
    /\ starts' = [starts EXCEPT ![i].pc = "done"]
    /\ UNCHANGED <<internal, shutdown, scratch, disconnects, audit, sink, contacts, sessions, registry, handles, leaked, connects>>

(* ------------------------ campaign API: update ------------------------ *)
\* the bodies of PATCH /campaigns/:id the model sends: every field is optional
\* ("-" and 0 stand for an absent field); updateCampaignSchema accepts a status
PatchBodies ==
    [status : CampaignStatuses \cup {"-"},
     throttleMinDelayMs : ThrottleMinValues \cup {0},
     throttleMaxDelayMs : ThrottleMaxValues \cup {0}]
        \ {[status |-> "-", throttleMinDelayMs |-> 0, throttleMaxDelayMs |-> 0]}

\* PATCH /campaigns/:id by a user of tenant t: refused for running and completed
\* campaigns, otherwise every field of the body is written to its column
PatchCampaign(t, c, body) ==
    /\ campaigns[c].tenant = t
    /\ campaigns[c].status \notin {"running", "completed"}
    /\ campaigns' = [campaigns EXCEPT ![c] =
          [@ EXCEPT !.status = IF body.status = "-" THEN @ ELSE body.status,
                    !.throttle_min_delay_ms =
                        IF body.throttleMinDelayMs = 0 THEN @ ELSE body.throttleMinDelayMs,
                    !.throttle_max_delay_ms =
                        IF body.throttleMaxDelayMs = 0 THEN @ ELSE body.throttleMaxDelayMs]]
    /\ UNCHANGED <<internal, starts, shutdown, scratch, disconnects, audit, sink, contacts, messages, sessions, queue, registry, handles, leaked, connects>>

(* ------------------------ campaign API: pause ------------------------- *)
\* a pause route that also cancels the messages that are being sent
PauseCampaign_CancelsSending(t, c) ==
    /\ campaigns[c].tenant = t
    /\ campaigns[c].status = "running"
    /\ campaigns' = [campaigns EXCEPT ![c].status = "paused"]
    /\ messages' = [i \in 1..Len(messages) |->
                      IF messages[i].campaign = c /\ messages[i].status \in {"queued", "sending"}
                      THEN [messages[i] EXCEPT !.status = "cancelled"]
                      ELSE messages[i]]
    /\ UNCHANGED <<internal, starts, shutdown, scratch, disconnects, audit, sink, contacts, sessions, queue, registry, handles, leaked, connects>>

\* POST /campaigns/:id/pause by a user of tenant t
PauseCampaign(t, c) ==
    /\ campaigns[c].tenant = t
    /\ campaigns[c].status = "running"
    /\ campaigns' = [campaigns EXCEPT ![c].status = "paused"]
    /\ messages' = [i \in 1..Len(messages) |->
                      IF messages[i].campaign = c /\ messages[i].status = "queued"
                      THEN [messages[i] EXCEPT !.status = "cancelled"]
                      ELSE messages[i]]
    /\ UNCHANGED <<internal, starts, shutdown, scratch, disconnects, audit, sink, contacts, sessions, queue, registry, handles, leaked, connects>>

(* --------------------- worker: send-message job ----------------------- *)
ActivePcs == {"acquire", "probe", "health", "send", "check", "complete", "catch"}

\* the send-message handlers that are running
ActiveSend == {i \in 1..Len(queue) : queue[i].pc \in ActivePcs}

\* pg-boss after the handler threw: retried while retrycount < retryLimit
QueueFail(job) ==
    IF job.retrycount < QueueRetryLimit
    THEN [job EXCEPT !.pc = "waiting", !.retrycount = @ + 1, !.client = NoHandle,
                     !.calls = <<>>, !.success = FALSE, !.fallbackUsed = FALSE,
                     !.cause = "-"]
    ELSE [job EXCEPT !.pc = "failed", !.client = NoHandle,
                     !.calls = <<>>, !.success = FALSE, !.fallbackUsed = FALSE,
                     !.cause = "-"]

\* the handler returned: pg-boss completes the job
QueueComplete(job) ==
    [job EXCEPT !.pc = "completed", !.client = NoHandle,
                !.calls = <<>>, !.success = FALSE, !.fallbackUsed = FALSE]

\* a throw inside the try block enters the catch branch; cause says which
\* statement threw: "launch", "probe" (Session not connected) or "health"
\* (Session unhealthy)
ThrowToCatch(job, cause) ==
    [job EXCEPT !.pc = "catch", !.client = NoHandle, !.cause = cause]

\* an UPDATE that marks the message without counting the attempt
MarkSending_NoIncrement(msg) == [msg EXCEPT !.status = "sending"]

\* UPDATE messages SET status = 'sending', attempts = attempts + 1
MarkSending(msg) == [msg EXCEPT !.status = "sending", !.attempts = @ + 1]

\* pg-boss hands the job to the handler, which first marks the message
JobBegin(j) ==
    /\ j \in DOMAIN queue
    /\ queue[j].pc = "waiting"
    /\ shutdown = "running"
    /\ Cardinality(ActiveSend) < WorkerConcurrency
    /\ messages' = [messages EXCEPT ![queue[j].messageId] = MarkSending(@)]
    /\ queue' = [queue EXCEPT ![j].pc = "acquire"]
    /\ UNCHANGED <<internal, starts, shutdown, scratch, disconnects, audit, sink, contacts, campaigns, sessions, registry, handles, leaked, connects>>

\* ctx.sessions.get(tenantId); without an entry a client is built and launched
JobAcquire(j) ==
    /\ j \in DOMAIN queue
    /\ queue[j].pc = "acquire"
    /\ Alive
    /\ LET t == queue[j].tenant IN
       IF registry[t] # NoHandle
       THEN WorkerState(handles, registry,
                        [queue EXCEPT ![j].pc = "health", ![j].client = registry[t]],
                        connects, NoExtra)
       ELSE \E out \in {"ok", "no-context", "goto-throws"} :
              LET h == FreshHandle IN
              IF out = "ok"
              THEN WorkerState([handles EXCEPT ![h] = Launch(NewClient(t))], registry,
                               [queue EXCEPT ![j].pc = "probe", ![j].client = h],
                               connects, NoExtra)
              ELSE \* launch() threw; after a failed page.goto the context that
                   \* was opened is never closed
                   WorkerState(handles, registry,
                               [queue EXCEPT ![j] = ThrowToCatch(@, "launch")], connects,
                               [NoExtra EXCEPT ![t] = IF out = "goto-throws" THEN 1 ELSE 0])
    /\ UNCHANGED <<internal, starts, shutdown, scratch, disconnects, sink, contacts, campaigns, messages, sessions>>

\* detectState() on the new client; only a connected client is registered
JobProbe(j) ==
    /\ j \in DOMAIN queue
    /\ queue[j].pc = "probe"
    /\ Alive
    /\ LET t == queue[j].tenant
           h == queue[j].client
       IN  \E st \in DetectOutcomes(handles[h]) :
             LET hs == [handles EXCEPT ![h] = AfterDetect(@, st)] IN
             IF st = "connected"
             THEN WorkerState(hs, [registry EXCEPT ![t] = h],
                              [queue EXCEPT ![j].pc = "health"], connects, NoExtra)
             ELSE WorkerState(hs, registry,
                              [queue EXCEPT ![j] = ThrowToCatch(@, "probe")], connects, NoExtra)
    /\ UNCHANGED <<internal, starts, shutdown, scratch, disconnects, sink, contacts, campaigns, messages, sessions>>

\* checkHealth(); an unhealthy session is persisted as needs-qr and the job throws
JobHealth(j) ==
    /\ j \in DOMAIN queue
    /\ queue[j].pc = "health"
    /\ Alive
    /\ LET t == queue[j].tenant
           h == queue[j].client
       IN  \E healthy \in HealthOutcomes(handles[h]) :
             IF healthy
             THEN /\ WorkerState(handles, registry,
                                 [queue EXCEPT ![j].pc = "send"], connects, NoExtra)
                  /\ UNCHANGED sessions
             ELSE /\ WorkerState(handles, registry,
                                 [queue EXCEPT ![j] = ThrowToCatch(@, "health")], connects, NoExtra)
                  /\ sessions' = [sessions EXCEPT ![t].status = "needs-qr"]
    /\ UNCHANGED <<internal, starts, shutdown, scratch, disconnects, sink, contacts, campaigns, messages>>

\* sendTextMessage: one sendText call with the job's bodyText
SendTextMessage(txt) ==
    [success |-> txt, fallbackUsed |-> FALSE, calls |-> <<"sendText:body">>]

\* sendImageMessage without the fallbackUsed flag on the path after a failed sendImage
SendImageMessage_NoFlag(dl, img, txt) ==
    IF ~dl
    THEN [success |-> txt, fallbackUsed |-> TRUE,
          calls |-> <<"download:failed", "sendText:fallback">>]
    ELSE IF ~img
         THEN [success |-> txt, fallbackUsed |-> FALSE,
               calls |-> <<"download:ok", "sendImage:failed", "sendText:fallback">>]
         ELSE [success |-> TRUE, fallbackUsed |-> FALSE,
               calls |-> <<"download:ok", "sendImage:ok">>]

\* sendImageMessage: dl, img and txt are what the download, the sendImage call
\* and the sendText call come to, if they are made
SendImageMessage(dl, img, txt) ==
    IF ~dl
    THEN [success |-> txt, fallbackUsed |-> TRUE,
          calls |-> <<"download:failed", "sendText:fallback">>]
    ELSE IF ~img
         THEN [success |-> txt, fallbackUsed |-> TRUE,
               calls |-> <<"download:ok", "sendImage:failed", "sendText:fallback">>]
         ELSE [success |-> TRUE, fallbackUsed |-> FALSE,
               calls |-> <<"download:ok", "sendImage:ok">>]

\* how the GET of downloadToTemp can end: a 200 response piped to the file, any
\* other status, a request error, or the 30 s timeout
DownloadOutcomes == {"ok", "status", "error", "timeout"}

\* downloadToTemp: whether a path is returned, and whether the file that
\* createWriteStream opened is on disk afterwards; only the request's error
\* handler unlinks it, and whether request.destroy() raises that event after a
\* timeout is left open
DownloadToTemp(o) ==
    IF o = "ok" THEN {[path |-> TRUE, file |-> TRUE]}
    ELSE IF o = "status" THEN {[path |-> FALSE, file |-> TRUE]}
    ELSE IF o = "error" THEN {[path |-> FALSE, file |-> FALSE]}
    ELSE {[path |-> FALSE, file |-> TRUE], [path |-> FALSE, file |-> FALSE]}

Downloads == UNION {DownloadToTemp(o) : o \in DownloadOutcomes}

\* the file when sendImageMessage returns: the finally block with unlinkSync
\* is entered only with a path
ScratchAfter(d) == IF d.path THEN FALSE ELSE d.file

\* the messages row after the result of the send was written
MessageAfterResult(msg, res) ==
    IF res.success
    THEN [msg EXCEPT !.status = "sent", !.fallback_used = res.fallbackUsed,
                     !.counted = @ + 1]
    ELSE IF msg.attempts < msg.max_attempts
         THEN [msg EXCEPT !.status = "queued", !.error = TRUE,
                          !.retry_delay = Pow2(msg.attempts) * RetryBaseSeconds]
         ELSE [msg EXCEPT !.status = "failed", !.error = TRUE, !.counted = @ + 1]

\* the campaigns row after the result of the send was written
CampaignAfterResult(camp, msg, res) ==
    IF res.success
    THEN [camp EXCEPT !.sent_count = @ + 1]
    ELSE IF msg.attempts < msg.max_attempts
         THEN camp
         ELSE [camp EXCEPT !.failed_count = @ + 1]

\* the driver calls of the job and the bookkeeping of their result
JobSend(j) ==
    /\ j \in DOMAIN queue
    /\ queue[j].pc = "send"
    /\ Alive
    /\ LET m == queue[j].messageId
           c == messages[m].campaign
           h == queue[j].client
           can == IF Usable(handles[h]) THEN {TRUE, FALSE} ELSE {FALSE}
           image == queue[j].type = "send_image"
       IN  \E d \in (IF image THEN Downloads ELSE {[path |-> FALSE, file |-> FALSE]}) :
             \E res \in (IF image
                         THEN {SendImageMessage(d.path, img, txt) : img \in can, txt \in can}
                         ELSE {SendTextMessage(txt) : txt \in can}) :
                 /\ scratch' = IF ~image THEN scratch
                               ELSE IF ScratchAfter(d) THEN scratch \cup {m}
                               ELSE scratch \ {m}
                 /\ messages' = [messages EXCEPT ![m] = MessageAfterResult(@, res)]
                 /\ campaigns' = [campaigns EXCEPT ![c] =
                                      CampaignAfterResult(@, messages[m], res)]
                 /\ WorkerState(handles, registry,
                                [queue EXCEPT ![j].pc = "check", ![j].client = NoHandle,
                                              ![j].calls = res.calls,
                                              ![j].success = res.success,
                                              ![j].fallbackUsed = res.fallbackUsed],
                                connects, NoExtra)
    /\ UNCHANGED <<internal, starts, shutdown, disconnects, sink, contacts, sessions>>

\* the SELECT of checkCampaignCompletion finds the campaign running and all counted
CompletionDue(camp) ==
    /\ camp.status = "running"
    /\ camp.sent_count + camp.failed_count >= camp.total_recipients

\* checkCampaignCompletion, its SELECT; without a row to complete the job returns
JobCheck(j) ==
    /\ j \in DOMAIN queue
    /\ queue[j].pc = "check"
    /\ Alive
    /\ LET c == messages[queue[j].messageId].campaign IN
       IF CompletionDue(campaigns[c])
       THEN queue' = [queue EXCEPT ![j].pc = "complete"]
       ELSE queue' = [queue EXCEPT ![j] = QueueComplete(@)]
    /\ UNCHANGED <<internal, starts, shutdown, scratch, disconnects, audit, sink, contacts, campaigns, messages, sessions, registry, handles, leaked, connects>>

\* checkCampaignCompletion, its UPDATE; then the job returns
JobComplete(j) ==
    /\ j \in DOMAIN queue
    /\ queue[j].pc = "complete"
    /\ Alive
    /\ LET c == messages[queue[j].messageId].campaign IN
       campaigns' = [campaigns EXCEPT ![c].status = "completed"]
    /\ queue' = [queue EXCEPT ![j] = QueueComplete(@)]
    /\ UNCHANGED <<internal, starts, shutdown, scratch, disconnects, audit, sink, contacts, messages, sessions, registry, handles, leaked, connects>>

\* a catch branch that rethrows without writing the message and the campaign
JobCatch_RethrowOnly(j) ==
    /\ j \in DOMAIN queue
    /\ queue[j].pc = "catch"
    /\ Alive
    /\ queue' = [queue EXCEPT ![j] = QueueFail(@)]
    /\ UNCHANGED <<internal, starts, shutdown, scratch, disconnects, audit, sink, contacts, campaigns, messages, sessions, registry, handles, leaked, connects>>

\* the catch branch: message failed, failed_count + 1, then the error is rethrown
JobCatch(j) ==
    /\ j \in DOMAIN queue
    /\ queue[j].pc = "catch"
    /\ Alive
    /\ LET m == queue[j].messageId
           c == messages[m].campaign
       IN  /\ messages' = [messages EXCEPT ![m].status = "failed", ![m].error = TRUE,
                                            ![m].counted = @ + 1]
           /\ campaigns' = [campaigns EXCEPT ![c].failed_count = @ + 1]
    /\ queue' = [queue EXCEPT ![j] = QueueFail(@)]
    /\ UNCHANGED <<internal, starts, shutdown, scratch, disconnects, audit, sink, contacts, sessions, registry, handles, leaked, connects>>

(* -------------------- session status sink (API) ----------------------- *)
\* POST /sessions/internal/update as the worker's updateSessionStatus calls it:
\* qr is "keep" (no qrCode key), "set" (a captured code) or "null"; last_seen
\* says that last_seen_at is not null
SessionUpdate(sess, status, qr) ==
    [sess EXCEPT !.status = status,
                 !.qr_code = IF qr = "keep" THEN @ ELSE qr = "set",
                 !.last_seen = IF status = "connected" THEN TRUE ELSE @]

\* what JavaScript reads for a header the request does not carry and for an
\* environment variable that is not set
Undefined == "undefined"

\* request.headers['x-internal-key']: absent, the deployment's key, or another
HeaderValues == {Undefined, "secret", "guess"}

\* process.env.INTERNAL_API_KEY on the API server: not set, or the key
ServerKeys == {Undefined, "secret"}

\* the negation of `internalKey !== process.env.INTERNAL_API_KEY`
InternalAuthorized(h) == h = internal.key

\* POST /sessions/internal/update with header h and body {tenantId, status,
\* qrCode}: 401 unless authorized, else the UPDATE and the SSE broadcast
InternalUpdate(h, t, status, qr) ==
    /\ internal' = [internal EXCEPT !.header = h, !.emitted = InternalAuthorized(h)]
    /\ sessions' = IF InternalAuthorized(h)
                   THEN [sessions EXCEPT ![t] = SessionUpdate(@, status, qr)]
                   ELSE sessions
    /\ UNCHANGED <<starts, shutdown, scratch, contacts, campaigns, messages, queue,
                   registry, handles, leaked, connects, disconnects, audit, sink>>

(* -------------------- worker: session-connect job --------------------- *)
ConnectActivePcs == {"launch", "probe", "catch"}
ConnectConcurrency == 2

ActiveConnect == {i \in 1..Len(connects) : connects[i].pc \in ConnectActivePcs}

\* pg-boss after handleSessionConnect threw: retried while retrycount < retryLimit
ConnectFail(job) ==
    IF job.retrycount < SessionRetryLimit
    THEN [job EXCEPT !.pc = "waiting", !.retrycount = @ + 1, !.client = NoHandle]
    ELSE [job EXCEPT !.pc = "failed", !.client = NoHandle]

\* POST /sessions/connect: the row becomes needs-qr and a job is enqueued
ConnectRequest(t) ==
    /\ Len(connects) < MaxConnects
    /\ sessions' = [sessions EXCEPT ![t].status = "needs-qr"]
    /\ connects' = Append(connects, [tenant |-> t, pc |-> "waiting", client |-> NoHandle,
                                     retrycount |-> 0])
    /\ UNCHANGED <<internal, starts, shutdown, scratch, disconnects, audit, sink, contacts, campaigns, messages, queue, registry, handles, leaked>>

\* ctx.sessions.get(tenantId); a new client is registered before it is launched
ConnectAcquire(i) ==
    /\ i \in DOMAIN connects
    /\ connects[i].pc = "waiting"
    /\ shutdown = "running"
    /\ Cardinality(ActiveConnect) < ConnectConcurrency
    /\ LET t == connects[i].tenant IN
       IF registry[t] # NoHandle
       THEN WorkerState(handles, registry, queue,
                        [connects EXCEPT ![i].pc = "launch", ![i].client = registry[t]],
                        NoExtra)
       ELSE LET h == FreshHandle IN
            WorkerState([handles EXCEPT ![h] = NewClient(t)],
                        [registry EXCEPT ![t] = h], queue,
                        [connects EXCEPT ![i].pc = "launch", ![i].client = h],
                        NoExtra)
    /\ UNCHANGED <<internal, starts, shutdown, scratch, disconnects, sink, contacts, campaigns, messages, sessions>>

\* await client.launch(), whether or not the client already has a context: a
\* second context replaces the first one, which stays open
ConnectLaunch(i) ==
    /\ i \in DOMAIN connects
    /\ connects[i].pc = "launch"
    /\ Alive
    /\ LET t == connects[i].tenant
           h == connects[i].client
       IN  \E out \in {"ok", "no-context", "goto-throws"} :
             IF out = "no-context"
             THEN WorkerState(handles, registry, queue,
                              [connects EXCEPT ![i].pc = "catch"], NoExtra)
             ELSE WorkerState([handles EXCEPT ![h] = Launch(@)], registry, queue,
                              [connects EXCEPT ![i].pc =
                                   IF out = "ok" THEN "probe" ELSE "catch"],
                              [NoExtra EXCEPT ![t] = IF handles[h].live THEN 1 ELSE 0])
    /\ UNCHANGED <<internal, starts, shutdown, scratch, disconnects, sink, contacts, campaigns, messages, sessions>>

\* what detectState() followed, on needs-qr, by captureQRCode() can come to
ProbeOutcomes(h) ==
    IF h.live THEN {"connected", "needs-qr:code", "needs-qr:no-code", "error"}
    ELSE {"error"}

DetectedState(o) ==
    IF o = "connected" THEN "connected" ELSE IF o = "error" THEN "error" ELSE "needs-qr"

\* detectState() and the three branches on its result
ConnectProbe(i) ==
    /\ i \in DOMAIN connects
    /\ connects[i].pc = "probe"
    /\ Alive
    /\ LET t == connects[i].tenant
           h == connects[i].client
       IN  \E o \in ProbeOutcomes(handles[h]) :
             LET hs == [handles EXCEPT ![h] = AfterDetect(@, DetectedState(o))] IN
             IF sink = "down"
             THEN \* every branch awaits updateSessionStatus inside the try block
                  /\ sessions' = sessions
                  /\ WorkerState(hs, registry, queue,
                                 [connects EXCEPT ![i].pc = "catch"], NoExtra)
             ELSE IF o = "connected"
             THEN /\ sessions' = [sessions EXCEPT ![t] = SessionUpdate(@, "connected", "keep")]
                  /\ WorkerState(hs, registry, queue,
                                 [connects EXCEPT ![i].pc = "done", ![i].client = NoHandle],
                                 NoExtra)
             ELSE IF o = "needs-qr:code"
             THEN \* the code was captured: the first poll starts before the job returns
                  /\ sessions' = [sessions EXCEPT ![t] = SessionUpdate(@, "needs-qr", "set")]
                  /\ WorkerState(hs, registry, queue,
                                 [connects EXCEPT ![i].pc = "poll-first"], NoExtra)
             ELSE \* no code captured, or an unknown browser state
                  /\ sessions' = [sessions EXCEPT ![t] = SessionUpdate(@, "error", "keep")]
                  /\ WorkerState(hs, registry, queue,
                                 [connects EXCEPT ![i].pc = "done", ![i].client = NoHandle],
                                 NoExtra)
    /\ UNCHANGED <<internal, starts, shutdown, scratch, disconnects, sink, contacts, campaigns, messages>>

\* the catch branch: status error, then the registered client is closed and
\* removed; when updateSessionStatus throws here, the handler throws before that
ConnectCatch(i) ==
    /\ i \in DOMAIN connects
    /\ connects[i].pc = "catch"
    /\ Alive
    /\ LET t == connects[i].tenant
           r == registry[t]
       IN  IF sink = "down"
           THEN /\ sessions' = sessions
                /\ WorkerState(handles, registry, queue,
                               [connects EXCEPT ![i] = ConnectFail(@)], NoExtra)
           ELSE /\ sessions' = [sessions EXCEPT ![t] = SessionUpdate(@, "error", "keep")]
                /\ WorkerState(IF r # NoHandle THEN [handles EXCEPT ![r] = Close(@)] ELSE handles,
                               [registry EXCEPT ![t] = NoHandle], queue,
                               [connects EXCEPT ![i].pc = "done", ![i].client = NoHandle],
                               NoExtra)
    /\ UNCHANGED <<internal, starts, shutdown, scratch, disconnects, sink, contacts, campaigns, messages>>

\* a timeout check placed inside the try block of poll(): when the call throws,
\* the catch block schedules the next run
PollTimeout_InsideTry(i) ==
    /\ i \in DOMAIN connects
    /\ connects[i].pc = "polling"
    /\ Alive
    /\ LET t == connects[i].tenant IN
       IF sink = "down"
       THEN /\ sessions' = sessions
            /\ WorkerState(handles, registry, queue, connects, NoExtra)
       ELSE /\ sessions' = [sessions EXCEPT ![t] = SessionUpdate(@, "needs-qr", "keep")]
            /\ WorkerState(handles, registry, queue,
                           [connects EXCEPT ![i].pc = "done", ![i].client = NoHandle], NoExtra)
    /\ UNCHANGED <<internal, starts, shutdown, scratch, disconnects, sink, contacts, campaigns, messages>>

\* a run of pollForLogin's poll() that finds Date.now() - startTime > maxWaitMs,
\* which cannot be the first run: needs-qr is sent and the poll is not scheduled
\* again, also when the call throws (it is outside the try block)
PollTimeout(i) ==
    /\ i \in DOMAIN connects
    /\ connects[i].pc = "polling"
    /\ Alive
    /\ LET t == connects[i].tenant IN
       /\ sessions' = IF sink = "down" THEN sessions
                      ELSE [sessions EXCEPT ![t] = SessionUpdate(@, "needs-qr", "keep")]
       /\ WorkerState(handles, registry, queue,
                      [connects EXCEPT ![i].pc = "done", ![i].client = NoHandle], NoExtra)
    /\ UNCHANGED <<internal, starts, shutdown, scratch, disconnects, sink, contacts, campaigns, messages>>

\* a run of poll() inside the time limit: detectState() and its three branches
PollStep(i) ==
    /\ i \in DOMAIN connects
    /\ connects[i].pc \in {"poll-first", "polling"}
    /\ Alive
    /\ LET t == connects[i].tenant
           h == connects[i].client
           stop == [connects EXCEPT ![i].pc = "done", ![i].client = NoHandle]
       IN  \E o \in ProbeOutcomes(handles[h]) :
             LET hs == [handles EXCEPT ![h] = AfterDetect(@, DetectedState(o))] IN
             IF sink = "down" \/ o = "needs-qr:no-code"
             THEN \* no call, or a call that throws into the catch block of
                  \* poll(), which schedules the next run
                  /\ sessions' = sessions
                  /\ WorkerState(hs, registry, queue,
                                 [connects EXCEPT ![i].pc = "polling"], NoExtra)
             ELSE IF o = "connected"
             THEN /\ sessions' = [sessions EXCEPT ![t] = SessionUpdate(@, "connected", "null")]
                  /\ WorkerState(hs, registry, queue, stop, NoExtra)
             ELSE IF o = "error"
             THEN /\ sessions' = [sessions EXCEPT ![t] = SessionUpdate(@, "error", "keep")]
                  /\ WorkerState(hs, registry, queue, stop, NoExtra)
             ELSE \* still waiting: the captured code is refreshed
                  /\ sessions' = [sessions EXCEPT ![t] = SessionUpdate(@, "needs-qr", "set")]
                  /\ WorkerState(hs, registry, queue,
                                 [connects EXCEPT ![i].pc = "polling"], NoExtra)
    /\ UNCHANGED <<internal, starts, shutdown, scratch, disconnects, sink, contacts, campaigns, messages>>

(* ------------------- worker: session-disconnect job ------------------- *)
\* POST /sessions/disconnect: the row becomes disconnected and a job is enqueued
DisconnectRequest(t) ==
    /\ Len(disconnects) < MaxDisconnects
    /\ sessions' = [sessions EXCEPT ![t].status = "disconnected"]
    /\ disconnects' = Append(disconnects, [tenant |-> t, pc |-> "waiting"])
    /\ UNCHANGED <<internal, starts, shutdown, scratch, contacts, campaigns, messages, queue, registry, handles, leaked,
                   connects, audit, sink>>

\* a disconnect job that closes the registered client and keeps the registry entry
DisconnectRun_KeepsEntry(i) ==
    /\ i \in DOMAIN disconnects
    /\ disconnects[i].pc = "waiting"
    /\ shutdown = "running"
    /\ LET t == disconnects[i].tenant
           r == registry[t]
       IN  WorkerState(IF r # NoHandle THEN [handles EXCEPT ![r] = Close(@)] ELSE handles,
                       registry, queue, connects, NoExtra)
    /\ disconnects' = [disconnects EXCEPT ![i].pc = "notify"]
    /\ UNCHANGED <<internal, starts, shutdown, scratch, contacts, campaigns, messages, sessions, sink>>

\* handleSessionDisconnect: the registered client, if any, is closed and removed
DisconnectRun(i) ==
    /\ i \in DOMAIN disconnects
    /\ disconnects[i].pc = "waiting"
    /\ shutdown = "running"
    /\ LET t == disconnects[i].tenant
           r == registry[t]
       IN  WorkerState(IF r # NoHandle THEN [handles EXCEPT ![r] = Close(@)] ELSE handles,
                       [registry EXCEPT ![t] = NoHandle], queue, connects, NoExtra)
    /\ disconnects' = [disconnects EXCEPT ![i].pc = "notify"]
    /\ UNCHANGED <<internal, starts, shutdown, scratch, contacts, campaigns, messages, sessions, sink>>

\* handleSessionDisconnect: updateSessionStatus(tenantId, 'disconnected'); an
\* error is caught and logged
DisconnectNotify(i) ==
    /\ i \in DOMAIN disconnects
    /\ disconnects[i].pc = "notify"
    /\ Alive
    /\ sessions' = IF sink = "down" THEN sessions
                   ELSE [sessions EXCEPT ![disconnects[i].tenant] =
                            SessionUpdate(@, "disconnected", "keep")]
    /\ disconnects' = [disconnects EXCEPT ![i].pc = "done"]
    /\ UNCHANGED <<internal, starts, shutdown, scratch, contacts, campaigns, messages, queue, registry, handles, leaked,
                   connects, audit, sink>>

(* -------------------- worker: periodic health check ------------------- *)
\* the sessions the SELECT of the health check can return: connected rows with
\* a last_seen_at, which is older than five minutes when enough time has passed
AuditCandidates == {t \in Tenants : sessions[t].status = "connected" /\ sessions[t].last_seen}

\* the interval fires and the SELECT returns the stale rows
AuditSelect ==
    /\ audit.pc = "idle"
    /\ Alive
    /\ \E rows \in SUBSET AuditCandidates :
         /\ rows # {}
         /\ audit' = [IdleAudit EXCEPT !.pc = "rows", !.rows = rows]
    /\ UNCHANGED <<internal, starts, shutdown, scratch, contacts, campaigns, messages, sessions, queue, registry, handles,
                   leaked, connects, disconnects, sink>>

\* the health check after a row: the next row, or the end of the run
AuditAfterRow(rows) ==
    IF rows = {} THEN IdleAudit ELSE [IdleAudit EXCEPT !.pc = "rows", !.rows = rows]

\* one row of the loop: sessions.get(row.tenant_id) and, with a client, checkHealth()
AuditRow ==
    /\ audit.pc = "rows"
    /\ Alive
    /\ \E t \in audit.rows :
         LET rest == audit.rows \ {t}
             r == registry[t]
         IN  IF r = NoHandle
             THEN WorkerAudit(handles, registry, queue, connects, AuditAfterRow(rest), NoExtra)
             ELSE \E healthy \in HealthOutcomes(handles[r]) :
                    IF healthy
                    THEN WorkerAudit(handles, registry, queue, connects,
                                     AuditAfterRow(rest), NoExtra)
                    ELSE WorkerAudit(handles, registry, queue, connects,
                                     [pc |-> "notify", rows |-> rest, tenant |-> t, client |-> r],
                                     NoExtra)
    /\ UNCHANGED <<internal, starts, shutdown, scratch, contacts, campaigns, messages, sessions, disconnects, sink>>

\* await updateSessionStatus(row.tenant_id, 'needs-qr'); when it throws, the
\* catch around the whole loop ends the run
AuditNotify ==
    /\ audit.pc = "notify"
    /\ Alive
    /\ IF sink = "down"
       THEN /\ sessions' = sessions
            /\ WorkerAudit(handles, registry, queue, connects, IdleAudit, NoExtra)
       ELSE /\ sessions' = [sessions EXCEPT ![audit.tenant] = SessionUpdate(@, "needs-qr", "keep")]
            /\ WorkerAudit(handles, registry, queue, connects,
                           [audit EXCEPT !.pc = "release"], NoExtra)
    /\ UNCHANGED <<internal, starts, shutdown, scratch, contacts, campaigns, messages, disconnects, sink>>

\* a release that empties the registry instead of deleting the entry of the row
AuditRelease_ClearsRegistry ==
    /\ audit.pc = "release"
    /\ Alive
    /\ WorkerAudit([handles EXCEPT ![audit.client] = Close(@)],
                   [t \in Tenants |-> NoHandle], queue, connects,
                   AuditAfterRow(audit.rows), NoExtra)
    /\ UNCHANGED <<internal, starts, shutdown, scratch, contacts, campaigns, messages, sessions, disconnects, sink>>

\* await client.close(); sessions.delete(row.tenant_id)
AuditRelease ==
    /\ audit.pc = "release"
    /\ Alive
    /\ WorkerAudit([handles EXCEPT ![audit.client] = Close(@)],
                   [registry EXCEPT ![audit.tenant] = NoHandle], queue, connects,
                   AuditAfterRow(audit.rows), NoExtra)
    /\ UNCHANGED <<internal, starts, shutdown, scratch, contacts, campaigns, messages, sessions, disconnects, sink>>

(* ----------------------- worker: SIGTERM handler ---------------------- *)
\* SIGTERM arrives: the handler calls boss.stop(), after which pg-boss hands no
\* further job to a handler
ShutdownSignal ==
    /\ shutdown = "running"
    /\ shutdown' = "stopping"
    /\ UNCHANGED <<internal, starts, scratch, contacts, campaigns, messages, sessions, queue, registry,
                   handles, leaked, connects, disconnects, audit, sink>>

\* await boss.stop() resolves: the handlers that were running have returned,
\* or the wait for them has ended first
ShutdownStopped ==
    /\ shutdown = "stopping"
    /\ shutdown' = "closing"
    /\ UNCHANGED <<internal, starts, scratch, contacts, campaigns, messages, sessions, queue, registry,
                   handles, leaked, connects, disconnects, audit, sink>>

\* one turn of the loop over the registry: await client.close()
ShutdownClose ==
    /\ shutdown = "closing"
    /\ \E t \in Tenants :
         /\ registry[t] # NoHandle
         /\ handles[registry[t]].live
         /\ WorkerState([handles EXCEPT ![registry[t]] = Close(@)], registry, queue,
                        connects, NoExtra)
    /\ UNCHANGED <<internal, starts, shutdown, scratch, contacts, campaigns, messages, sessions,
                   disconnects, sink>>

\* after the loop: db.end() and process.exit(0)
ShutdownExit ==
    /\ shutdown = "closing"
    /\ \A t \in Tenants : registry[t] # NoHandle => ~handles[registry[t]].live
    /\ shutdown' = "exited"
    /\ UNCHANGED <<internal, starts, scratch, contacts, campaigns, messages, sessions, queue, registry,
                   handles, leaked, connects, disconnects, audit, sink>>

(* ------------------------- the status sink ---------------------------- *)
\* the API becomes unreachable for the worker's axios.post, or reachable again
SinkChange ==
    /\ sink' = IF sink = "up" THEN "down" ELSE "up"
    /\ UNCHANGED <<internal, starts, shutdown, scratch, contacts, campaigns, messages, sessions, queue, registry, handles,
                   leaked, connects, disconnects, audit>>

(* ------------------------- initial state ------------------------------ *)
\* an API server configured with the internal key that has handled no request
ServerInit == internal = [key |-> "secret", header |-> "-", emitted |-> FALSE]

\* a contacts table with two eligible contacts of t1, one that opted out, and
\* contacts of the other tenant
MainContacts ==
    [k \in ContactIds |->
        IF k = 1 THEN [tenant |-> "t1", opted_out |-> FALSE, tags |-> {"a"}, name |-> "Ana", custom_fields |-> <<>>]
        ELSE IF k = 2 THEN [tenant |-> "t1", opted_out |-> FALSE, tags |-> {"b"}, name |-> "Ana", custom_fields |-> <<>>]
        ELSE IF k = 3 THEN [tenant |-> "t1", opted_out |-> TRUE, tags |-> {"a"}, name |-> "Ana", custom_fields |-> <<>>]
        ELSE [tenant |-> "t2", opted_out |-> FALSE, tags |-> {"a"}, name |-> "Ana", custom_fields |-> <<>>]]

\* a campaigns row as POST /campaigns inserts it
CreateCampaign(t, ty, all, tags, lo, hi) ==
    [tenant |-> t, type |-> ty, target_all |-> all, target_tags |-> tags,
     throttle_min_delay_ms |-> lo, throttle_max_delay_ms |-> hi,
     template_text |-> <<"txt", "{name}">>,
     status |-> "draft", total_recipients |-> 0, sent_count |-> 0, failed_count |-> 0]

\* a campaign created with both throttle bounds at 3000: every job is delayed alike
NewCampaign(t, ty, all, tags) ==
    CreateCampaign(t, ty, all, tags, DefaultThrottleMin, DefaultThrottleMin)

\* what every specification starts from: a worker process that has just started
\* (empty registry, no job) beside tenants whose session row says connected
WorkerInit ==
    /\ messages = <<>>
    /\ queue = <<>>
    /\ connects = <<>>
    /\ registry = [t \in Tenants |-> NoHandle]
    /\ handles = [h \in HandleIds |-> BlankHandle]
    /\ leaked = [t \in Tenants |-> 0]
    /\ disconnects = <<>>
    /\ audit = IdleAudit
    /\ sink = "up"
    /\ shutdown = "running"
    /\ scratch = {}
    /\ starts = <<>>

Init ==
    /\ WorkerInit
    /\ ServerInit
    /\ contacts = MainContacts
    /\ \E ty \in {"text", "image"} :
         campaigns = [c \in CampaignIds |-> NewCampaign("t1", ty, TRUE, {})]
    /\ sessions = [t \in Tenants |-> [status |-> "connected", qr_code |-> FALSE, last_seen |-> TRUE]]

\* a contacts table with one eligible contact of t1
SingleContacts ==
    [k \in ContactIds |->
        IF k = 1 THEN [tenant |-> "t1", opted_out |-> FALSE, tags |-> {"a"}, name |-> "Ana", custom_fields |-> <<>>]
        ELSE IF k = 2 THEN [tenant |-> "t1", opted_out |-> TRUE, tags |-> {"b"}, name |-> "Ana", custom_fields |-> <<>>]
        ELSE [tenant |-> "t2", opted_out |-> TRUE, tags |-> {"a"}, name |-> "Ana", custom_fields |-> <<>>]]

SessionInit ==
    /\ WorkerInit
    /\ ServerInit
    /\ contacts = SingleContacts
    /\ campaigns = [c \in CampaignIds |-> NewCampaign("t1", "text", TRUE, {})]
    /\ sessions = [t \in Tenants |-> [status |-> "connected", qr_code |-> FALSE, last_seen |-> TRUE]]

JobIds == 1..MaxMessages
ConnectIds == 1..MaxConnects

StartStep == \E t \in Tenants, c \in CampaignIds : StartCampaign(t, c)

PauseStep == \E t \in Tenants, c \in CampaignIds : PauseCampaign(t, c)

SendJobStep ==
    \/ \E j \in JobIds : JobBegin(j)
    \/ \E j \in JobIds : JobAcquire(j)
    \/ \E j \in JobIds : JobProbe(j)
    \/ \E j \in JobIds : JobHealth(j)
    \/ \E j \in JobIds : JobSend(j)
    \/ \E j \in JobIds : JobCheck(j)
    \/ \E j \in JobIds : JobComplete(j)
    \/ \E j \in JobIds : JobCatch(j)

ConnectJobStep ==
    \/ \E t \in {"t1"} : ConnectRequest(t)
    \/ \E i \in ConnectIds : ConnectAcquire(i)
    \/ \E i \in ConnectIds : ConnectLaunch(i)
    \/ \E i \in ConnectIds : ConnectProbe(i)
    \/ \E i \in ConnectIds : ConnectCatch(i)
    \/ \E i \in ConnectIds : PollStep(i)
    \/ \E i \in ConnectIds : PollTimeout(i)

\* the dispatch pipeline: campaign API and send-message jobs
Next == StartStep \/ PauseStep \/ SendJobStep

Spec == Init /\ [][Next]_vars

\* the pipeline of one contact beside the session lifecycle
SessionNext == StartStep \/ PauseStep \/ SendJobStep \/ ConnectJobStep

SessionSpec == SessionInit /\ [][SessionNext]_vars

\* campaign starts over every small contacts table and targeting rule
StartInit ==
    /\ WorkerInit
    /\ ServerInit
    /\ contacts \in [ContactIds -> [tenant : Tenants, opted_out : BOOLEAN,
                                    tags : {{}, {"a"}, {"b"}},
                                    name : {"Ana"}, custom_fields : {<<>>}]]
    /\ \E all \in BOOLEAN, tags \in {{}, {"a"}, {"a", "b"}},
          cs \in {"draft", "scheduled", "completed", "cancelled"} :
         campaigns = [c \in CampaignIds |->
                        [NewCampaign("t1", "text", all, tags) EXCEPT !.status = cs]]
    /\ \E st \in {"connected", "disconnected"} :
         sessions = [t \in Tenants |-> [status |-> st, qr_code |-> FALSE, last_seen |-> TRUE]]

StartNext == StartStep \/ PauseStep

StartSpec == StartInit /\ [][StartNext]_vars

DisconnectIds == 1..MaxDisconnects

DisconnectJobStep ==
    \/ \E t \in {"t1"} : DisconnectRequest(t)
    \/ \E i \in DisconnectIds : DisconnectRun(i)
    \/ \E i \in DisconnectIds : DisconnectNotify(i)

AuditStep == AuditSelect \/ AuditRow \/ AuditNotify \/ AuditRelease

\* the session lifecycle alone: connect and disconnect jobs, pairing polls and
\* the health check, with a status sink that comes and goes
LifecycleInit ==
    /\ WorkerInit
    /\ ServerInit
    /\ contacts = SingleContacts
    /\ campaigns = [c \in CampaignIds |-> NewCampaign("t1", "text", TRUE, {})]
    /\ sessions = [t \in Tenants |-> [status |-> "disconnected", qr_code |-> FALSE,
                                      last_seen |-> FALSE]]

LifecycleNext == ConnectJobStep \/ DisconnectJobStep \/ AuditStep \/ SinkChange

LifecycleSpec == LifecycleInit /\ [][LifecycleNext]_vars

ShutdownStep == ShutdownSignal \/ ShutdownStopped \/ ShutdownClose \/ ShutdownExit

\* the pipeline of one contact in a worker that receives SIGTERM: nothing of
\* the worker runs once the process has exited
ShutdownNext == StartStep \/ SendJobStep \/ ShutdownStep

ShutdownSpec == SessionInit /\ [][ShutdownNext]_vars

\* the session lifecycle with timers that fire: a scheduled run of poll() is
\* eventually executed, and once maxWaitMs has passed a run finds it passed
PairingSpec ==
    /\ LifecycleInit
    /\ [][LifecycleNext]_vars
    /\ \A i \in ConnectIds : WF_vars(PollStep(i)) /\ WF_vars(PollTimeout(i))

\* the internal endpoint alone, on a server with or without INTERNAL_API_KEY
InternalInit ==
    /\ WorkerInit
    /\ contacts = SingleContacts
    /\ campaigns = [c \in CampaignIds |-> NewCampaign("t1", "text", TRUE, {})]
    /\ sessions = [t \in Tenants |-> [status |-> "disconnected", qr_code |-> FALSE,
                                      last_seen |-> FALSE]]
    /\ \E k \in ServerKeys : internal = [key |-> k, header |-> "-", emitted |-> FALSE]

InternalNext ==
    \E h \in HeaderValues, t \in Tenants, st \in SessionStatuses, qr \in {"keep", "set", "null"} :
        InternalUpdate(h, t, st, qr)

InternalSpec == InternalInit /\ [][InternalNext]_vars

\* the campaign API alone: campaigns created with any of the throttle values,
\* then updated, started and paused
ApiInit ==
    /\ WorkerInit
    /\ ServerInit
    /\ contacts = MainContacts
    /\ \E lo \in ThrottleMinValues, hi \in ThrottleMaxValues :
         campaigns = [c \in CampaignIds |-> CreateCampaign("t1", "text", TRUE, {}, lo, hi)]
    /\ sessions = [t \in Tenants |-> [status |-> "connected", qr_code |-> FALSE, last_seen |-> TRUE]]

PatchStep == \E t \in Tenants, c \in CampaignIds, body \in PatchBodies : PatchCampaign(t, c, body)

ApiNext == PatchStep \/ StartStep \/ PauseStep

ApiSpec == ApiInit /\ [][ApiNext]_vars

\* campaigns whose template is any short text, started for a contact whose name
\* may be missing ("" is what contact.name || '' gives) and who has any of the custom fields
TemplatePieces == {"txt"} \cup Placeholders
Templates == UNION {[1..n -> TemplatePieces] : n \in 1..MaxTemplateLen}
ContactNames == {"", "Ana", "$&"}
FieldValues == {"v", "$&"}
CustomFields ==
    {<<>>} \cup {<<<<key, v>>>> : key \in FieldKeys, v \in FieldValues}
           \cup {<<<<"f", v>>, <<"g", w>>>> : v \in FieldValues, w \in FieldValues}

RenderInit ==
    /\ WorkerInit
    /\ ServerInit
    /\ \E n \in ContactNames, cf \in CustomFields :
         contacts = [SingleContacts EXCEPT ![1].name = n, ![1].custom_fields = cf]
    /\ \E tpl \in Templates :
         campaigns = [c \in CampaignIds |->
                        [NewCampaign("t1", "text", TRUE, {}) EXCEPT !.template_text = tpl]]
    /\ sessions = [t \in Tenants |-> [status |-> "connected", qr_code |-> FALSE, last_seen |-> TRUE]]

\* the steps of the connect jobs and pairing polls in the worker
ConnectWorkStep ==
    \/ \E i \in ConnectIds : ConnectAcquire(i)
    \/ \E i \in ConnectIds : ConnectLaunch(i)
    \/ \E i \in ConnectIds : ConnectProbe(i)
    \/ \E i \in ConnectIds : ConnectCatch(i)
    \/ \E i \in ConnectIds : PollStep(i)
    \/ \E i \in ConnectIds : PollTimeout(i)

\* two tenants on one worker: t1 runs a campaign while t2 pairs, disconnects
\* and is audited
IsolationInit ==
    /\ messages = <<>>
    /\ queue = <<>>
    /\ connects = <<>>
    /\ registry = [t \in Tenants |-> NoHandle]
    /\ handles = [h \in HandleIds |-> BlankHandle]
    /\ leaked = [t \in Tenants |-> 0]
    /\ audit = IdleAudit
    /\ sink = "up"
    /\ shutdown = "running"
    /\ scratch = {}
    /\ starts = <<>>
    /\ ServerInit
    /\ contacts = SingleContacts
    /\ campaigns = [c \in CampaignIds |-> NewCampaign("t1", "text", TRUE, {})]
    \* t2 has just asked to disconnect: POST /sessions/disconnect has written
    \* the row and enqueued the job
    /\ sessions = [t \in Tenants |->
                     [status |-> IF t = "t2" THEN "disconnected" ELSE "connected",
                      qr_code |-> FALSE, last_seen |-> TRUE]]
    /\ disconnects = <<[tenant |-> "t2", pc |-> "waiting"]>>

IsolationNext ==
    \/ StartStep
    \/ SendJobStep
    \/ \E t \in {"t2"} : ConnectRequest(t)
    \/ ConnectWorkStep
    \/ \E i \in DisconnectIds : DisconnectRun(i)
    \/ \E i \in DisconnectIds : DisconnectNotify(i)
    \/ AuditStep

IsolationSpec == IsolationInit /\ [][IsolationNext]_vars

\* start requests handled concurrently beside the worker
RaceNext ==
    \/ \E t \in Tenants, c \in CampaignIds : StartRead(t, c)
    \/ \E i \in 1..MaxStarts : StartWrite(i)
    \/ SendJobStep

RaceSpec == SessionInit /\ [][RaceNext]_vars

RenderNext == StartStep \/ PauseStep

RenderSpec == RenderInit /\ [][RenderNext]_vars

(* =============================== claims =============================== *)
MessageIds == 1..Len(messages)

Counted(c) == campaigns[c].sent_count + campaigns[c].failed_count

\* the send-message jobs of message m that pg-boss will still run or is running
PendingJobs(m) ==
    {j \in 1..Len(queue) : queue[j].messageId = m /\ queue[j].pc \notin {"completed", "failed"}}

\* browser contexts of tenant t that were opened and not closed
LiveHandles(t) ==
    leaked[t] + Cardinality({h \in HandleIds : handles[h].tenant = t /\ handles[h].live})

\* C1: the attempts counter of a message never exceeds its max_attempts,
\* whatever the sequence of first deliveries and queue-level retries.
C1_AttemptsWithinMax ==
    \A m \in MessageIds : messages[m].attempts <= messages[m].max_attempts

\* C2: every message reaches a terminal status: a message whose job pg-boss will
\* not run again (completed, or failed for good) is sent, failed or cancelled,
\* so that a message put back to queued for a local retry is executed again.
C2_NoJobLeftImpliesTerminal ==
    \A m \in MessageIds :
        PendingJobs(m) = {} => messages[m].status \in TerminalStatuses

\* C3: sent_count + failed_count <= total_recipients for every campaign in
\* every reachable state.
C3_CountedWithinTotal ==
    \A c \in CampaignIds : Counted(c) <= campaigns[c].total_recipients

\* C4: a campaign is marked completed only at a moment when its status is
\* running and sent_count + failed_count equals total_recipients.
C4_CompletedOnlyWhenRunningAndEqual ==
    [][\A c \in CampaignIds :
          (campaigns[c].status # "completed" /\ campaigns'[c].status = "completed")
              => (campaigns[c].status = "running"
                    /\ Counted(c) = campaigns[c].total_recipients)]_vars

\* C5: when a send-message handler finishes, on any outcome (success, retry
\* scheduling, terminal failure, catch branch), the campaign of its message is
\* not left running with sent_count + failed_count = total_recipients.
C5_CompletionCheckedOnEveryExit ==
    [][\A j \in 1..Len(queue) :
          (queue[j].pc \in ActivePcs /\ queue'[j].pc \notin ActivePcs)
              => LET c == messages[queue[j].messageId].campaign
                 IN  ~(campaigns'[c].status = "running"
                         /\ campaigns'[c].sent_count + campaigns'[c].failed_count
                              = campaigns'[c].total_recipients)]_vars

\* C6: at every moment a tenant has at most one live (launched, not closed)
\* driver handle in the worker process.
C6_OneLiveHandlePerTenant ==
    \A t \in Tenants : LiveHandles(t) <= 1

\* C7: a job that finds a live handle in the registry for its tenant uses it
\* without initialising it again: no step launches a browser on a handle that
\* is registered and live.
C7_LiveHandleNotRelaunched ==
    [][\A t \in Tenants :
          (registry[t] # NoHandle /\ handles[registry[t]].live /\ registry'[t] # NoHandle)
              => handles'[registry'[t]].launches <= handles[registry[t]].launches]_vars

\* C8: a pause turns exactly the queued messages of the campaign into cancelled
\* and leaves the others alone; a cancelled message stays cancelled (its job,
\* enqueued before the pause, does not send it); a sending message goes on to
\* sent or failed.
C8_PauseCancelsQueuedForGood ==
    [][\A m \in MessageIds :
          /\ (campaigns[messages[m].campaign].status = "running"
                /\ campaigns'[messages[m].campaign].status = "paused")
               => messages'[m].status =
                     IF messages[m].status = "queued" THEN "cancelled"
                     ELSE messages[m].status
          /\ messages[m].status = "cancelled" => messages'[m].status = "cancelled"
          /\ (messages[m].status = "sending" /\ messages'[m].status # "sending"
                /\ campaigns[messages[m].campaign].status = "paused")
               => messages'[m].status \in {"sent", "failed"}]_vars

\* the send-message jobs whose driver calls are over and whose handler still runs
SentImageJobs ==
    {j \in DOMAIN queue : queue[j].type = "send_image" /\ queue[j].pc \in {"check", "complete"}}

\* C9 as stated: whenever an image job fell back to send-text (after a failed
\* download or a failed send-image), the message ends with fallback_used = true.
C9_FallbackAlwaysFlagged ==
    \A j \in SentImageJobs :
        (\E n \in DOMAIN queue[j].calls : queue[j].calls[n] = "sendText:fallback")
            => messages[queue[j].messageId].fallback_used

\* C9 amended: an image job whose download fails makes no send-image call and
\* one send-text call with the fallback text; one whose send-image fails makes
\* one send-text call with the fallback text after it; in both cases the result
\* carries fallbackUsed = true, and the message ends sent with fallback_used =
\* true exactly when that send-text call succeeds (when it fails the flag is not
\* written).  A successful send-image makes no send-text call and the message is
\* sent with fallback_used = false.
C9_ImageFallback ==
    \A j \in SentImageJobs :
        LET calls == queue[j].calls
            msg == messages[queue[j].messageId]
        IN  /\ calls[1] \in {"download:failed", "download:ok"}
            /\ calls[1] = "download:failed"
                 => calls = <<"download:failed", "sendText:fallback">> /\ queue[j].fallbackUsed
            /\ calls[1] = "download:ok"
                 => /\ calls[2] \in {"sendImage:ok", "sendImage:failed"}
                    /\ calls[2] = "sendImage:failed"
                         => /\ calls = <<"download:ok", "sendImage:failed", "sendText:fallback">>
                            /\ queue[j].fallbackUsed
                    /\ calls[2] = "sendImage:ok"
                         => /\ calls = <<"download:ok", "sendImage:ok">>
                            /\ queue[j].success /\ ~queue[j].fallbackUsed
            /\ queue[j].success
                 => msg.status = "sent" /\ msg.fallback_used = queue[j].fallbackUsed
            /\ ~queue[j].success
                 => msg.status # "sent" /\ ~msg.fallback_used

\* an image job whose send-image failed and whose fallback text went out
C9_Witness ==
    \E j \in SentImageJobs :
        /\ queue[j].calls = <<"download:ok", "sendImage:failed", "sendText:fallback">>
        /\ queue[j].success
        /\ messages[queue[j].messageId].status = "sent"
        /\ messages[queue[j].messageId].fallback_used

\* the eligible contacts of campaign c in the words of the claim
ClaimEligible(c) ==
    {k \in ContactIds :
        /\ contacts[k].tenant = campaigns[c].tenant
        /\ contacts[k].opted_out = FALSE
        /\ \/ campaigns[c].target_all
           \/ campaigns[c].target_tags = {}
           \/ \E g \in Tags : g \in contacts[k].tags /\ g \in campaigns[c].target_tags}

\* C10: an accepted start with N eligible contacts persists status running and
\* total_recipients = N and creates exactly one queued message and exactly one
\* send job per eligible contact, and none for any other contact.
C10_StartExpandsEligible ==
    [][\A c \in CampaignIds :
          (campaigns[c].status # "running" /\ campaigns'[c].status = "running")
              => LET E == ClaimEligible(c)
                     newMsgs == (Len(messages) + 1)..Len(messages')
                     newJobs == (Len(queue) + 1)..Len(queue')
                 IN  /\ campaigns'[c].total_recipients = Cardinality(E)
                     /\ Len(messages') = Len(messages) + Cardinality(E)
                     /\ Len(queue') = Len(queue) + Cardinality(E)
                     /\ \A m \in DOMAIN messages : messages'[m] = messages[m]
                     /\ \A j \in DOMAIN queue : queue'[j] = queue[j]
                     /\ \A m \in newMsgs :
                          /\ messages'[m].campaign = c
                          /\ messages'[m].contact \in E
                          /\ messages'[m].status = "queued"
                          /\ Cardinality({j \in newJobs : queue'[j].messageId = m}) = 1
                     /\ \A k \in E :
                          Cardinality({m \in newMsgs : messages'[m].contact = k}) = 1
                     /\ \A j \in newJobs :
                          queue'[j].messageId \in newMsgs /\ queue'[j].pc = "waiting"]_vars

\* a started campaign with two recipients beside a contact of its tenant that
\* opted out and a contact that misses its tags
C10_Witness ==
    \E c \in CampaignIds :
        /\ campaigns[c].status = "running"
        /\ campaigns[c].total_recipients = 2
        /\ Len(messages) = 2 /\ Len(queue) = 2
        /\ ~campaigns[c].target_all /\ campaigns[c].target_tags = {"a"}
        /\ \E k \in ContactIds :
             contacts[k].tenant = campaigns[c].tenant
                /\ (contacts[k].opted_out \/ contacts[k].tags = {"b"})

\* C12: a message whose send fails on each execution climbs the retry ladder:
\* a failed execution with attempts < max_attempts puts it back to queued with
\* the error stored and a retry delay of base x 2^attempts, and such a message
\* is executed again; the failed execution with attempts = max_attempts sets it
\* failed and adds one to the campaign's failed_count.
C12_RetryLadder ==
    [][\A m \in MessageIds :
          LET c == messages[m].campaign IN
          /\ (messages[m].status = "sending" /\ messages'[m].status \notin {"sending", "sent"})
               => IF messages[m].attempts < messages[m].max_attempts
                  THEN /\ messages'[m].status = "queued"
                       /\ messages'[m].error
                       /\ messages'[m].retry_delay = RetryBaseSeconds * Pow2(messages[m].attempts)
                       /\ campaigns'[c].failed_count = campaigns[c].failed_count
                  ELSE /\ messages'[m].status = "failed"
                       /\ campaigns'[c].failed_count = campaigns[c].failed_count + 1
          /\ (messages'[m].status = "queued" /\ messages'[m].attempts >= 1)
               => \E j \in DOMAIN queue' :
                    queue'[j].messageId = m /\ queue'[j].pc \notin {"completed", "failed"}]_vars

\* C14: a message that is sent, failed or cancelled keeps that status whatever
\* job runs later, and a message becomes cancelled only from queued.
C14_TerminalStatusIsFinal ==
    [][\A m \in MessageIds :
          /\ messages[m].status \in TerminalStatuses
               => messages'[m].status = messages[m].status
          /\ (messages'[m].status = "cancelled" /\ messages[m].status # "cancelled")
               => messages[m].status = "queued"]_vars

\* the tenants none of whose jobs is in the middle of an execution
QuietTenants ==
    {t \in Tenants :
        /\ \A j \in DOMAIN queue : queue[j].tenant = t => queue[j].pc \notin ActivePcs
        /\ \A i \in DOMAIN connects :
             connects[i].tenant = t
                => connects[i].pc \notin ConnectActivePcs \cup {"poll-first", "polling"}
        /\ \A i \in DOMAIN disconnects :
             disconnects[i].tenant = t => disconnects[i].pc # "notify"
        /\ audit.pc = "idle"}

\* C20: no driver handle is orphaned: while no job of a tenant is executing,
\* every browser context of the tenant that was opened and not closed belongs
\* to the client in the tenant's registry entry.
C20_NoOrphanedHandle ==
    \A t \in QuietTenants :
        /\ leaked[t] = 0
        /\ \A h \in HandleIds :
             (handles[h].tenant = t /\ handles[h].live) => registry[t] = h

\* C19: whatever the number and the order of the executions of its job, a
\* message is added at most once to sent_count + failed_count of its campaign.
C19_CountedOncePerMessage ==
    \A m \in MessageIds : messages[m].counted <= 1

\* the jobs a step has added to the send-message queue
NewJobsOfStep == (Len(queue) + 1)..Len(queue')

\* C11: every job enqueued by a start has a start-delay d with
\* throttle_min_delay_ms <= d <= throttle_max_delay_ms of its campaign.
C11_DelayWithinThrottle ==
    [][\A j \in NewJobsOfStep :
          LET camp == campaigns[messages'[queue'[j].messageId].campaign]
          IN  /\ camp.throttle_min_delay_ms <= queue'[j].startAfter
              /\ queue'[j].startAfter <= camp.throttle_max_delay_ms]_vars

\* C16: the jobs a start of a campaign with throttle bounds min <= max
\* enqueues become eligible at least throttle_min_delay_ms apart from one
\* another.
C16_JobsSpacedByMin ==
    [][\A j1 \in NewJobsOfStep, j2 \in NewJobsOfStep :
          (j1 < j2
             /\ campaigns[messages'[queue'[j1].messageId].campaign].throttle_min_delay_ms
                  <= campaigns[messages'[queue'[j1].messageId].campaign].throttle_max_delay_ms)
            => LET camp == campaigns[messages'[queue'[j1].messageId].campaign]
                   gap == queue'[j2].startAfter - queue'[j1].startAfter
               IN  gap >= camp.throttle_min_delay_ms
                      \/ 0 - gap >= camp.throttle_min_delay_ms]_vars

\* C18: a campaign becomes running only by a start (which enqueues its jobs)
\* from draft, scheduled or paused, paused only from running, and completed
\* only from running.
C18_StatusByValidatedTransition ==
    [][\A c \in CampaignIds :
          (campaigns'[c].status # campaigns[c].status
             /\ campaigns'[c].status \in {"running", "paused", "completed"})
            => \/ /\ campaigns'[c].status = "running"
                  /\ campaigns[c].status \in {"draft", "scheduled", "paused"}
                  /\ NewJobsOfStep # {}
               \/ /\ campaigns'[c].status = "paused"
                  /\ campaigns[c].status = "running"
               \/ /\ campaigns'[c].status = "completed"
                  /\ campaigns[c].status = "running"]_vars

\* C13: a run of the health check that found a connected, stale session whose
\* live handle reported unhealthy leaves that row with the session needs-qr,
\* the handle closed and no entry of the tenant in the registry.
C13_AuditReleasesUnhealthy ==
    [][(audit.pc \in {"notify", "release"} /\ audit'.pc \notin {"notify", "release"})
          => /\ sessions'[audit.tenant].status = "needs-qr"
             /\ registry'[audit.tenant] = NoHandle
             /\ leaked'[audit.tenant] = leaked[audit.tenant]
             /\ \A h \in HandleIds :
                  handles'[h].tenant = audit.tenant /\ handles'[h].live
                     => \E i \in DOMAIN connects' : connects'[i].client = h]_vars

\* C15: a status-sink call that throws does not fail a session job and does
\* not change its course: no connect job is thrown back to the queue or failed,
\* a connect job leaves its probe as it does when the call succeeds (ended, or
\* polling), and the health check goes on to release the handle.
C15_SinkFailureHarmless ==
    [][sink = "down"
          => /\ \A i \in DOMAIN connects :
                  /\ connects'[i].retrycount = connects[i].retrycount
                  /\ connects'[i].pc # "failed"
                  /\ (connects[i].pc = "probe" /\ connects'[i].pc # "probe")
                       => connects'[i].pc \in {"done", "poll-first"}
             /\ (audit.pc = "notify" /\ audit'.pc # "notify") => audit'.pc = "release"]_vars

\* C17: a session row holds a pairing payload only while its status is needs-qr.
C17_QrOnlyWhileNeedsQr ==
    \A t \in Tenants : sessions[t].qr_code => sessions[t].status = "needs-qr"

\* C21: once the worker has exited on SIGTERM with no send-message handler cut
\* off, no browser context of any tenant is still open
C21_ExitLeavesNoLiveHandle ==
    (shutdown = "exited" /\ ActiveSend = {}) => \A t \in Tenants : LiveHandles(t) = 0

\* C30: the scratch file of a message is not on disk when no send-message
\* handler is running for it
C30_NoScratchFileAfterJob ==
    \A j \in DOMAIN queue :
        queue[j].pc \notin ActivePcs => queue[j].messageId \notin scratch

\* C22: a step in which a send-message handler exits by throwing (pg-boss gets
\* the job back for a retry or fails it) leaves the message failed with its
\* error set and the campaign's failed_count one higher than before the step
C22_ThrowAfterBookkeeping ==
    [][\A j \in DOMAIN queue :
          (queue[j].pc \in ActivePcs /\ queue'[j].pc \in {"waiting", "failed"}) =>
              LET m == queue[j].messageId
                  c == messages[m].campaign
              IN  /\ messages'[m].status = "failed"
                  /\ messages'[m].error
                  /\ campaigns'[c].failed_count = campaigns[c].failed_count + 1]_vars

\* a job that pg-boss got back after its handler threw, with the message failed
C22_Witness ==
    \E j \in DOMAIN queue :
        /\ queue[j].pc = "waiting"
        /\ queue[j].retrycount >= 1
        /\ messages[queue[j].messageId].status = "failed"
        /\ messages[queue[j].messageId].error
        /\ campaigns[messages[queue[j].messageId].campaign].failed_count >= 1

\* the message of job j after the step follows the retry rule: back to queued
\* with the backoff delay while attempts < max_attempts, failed otherwise
RetryRuleApplied(j) ==
    LET m == queue[j].messageId IN
    IF messages[m].attempts < messages[m].max_attempts
    THEN /\ messages'[m].status = "queued"
         /\ messages'[m].retry_delay = Pow2(messages[m].attempts) * RetryBaseSeconds
    ELSE messages'[m].status = "failed"

\* C23: when a send-message job whose new client was not detected connected
\* ends, the tenant's session row says needs-qr and the message follows the
\* retry rule
C23_ProbeFailureRecoverable ==
    [][\A j \in DOMAIN queue :
          (queue[j].pc = "catch" /\ queue[j].cause = "probe" /\ queue'[j].pc # "catch") =>
              /\ sessions'[queue[j].tenant].status = "needs-qr"
              /\ RetryRuleApplied(j)]_vars

\* C24: when a send-message job whose health check reported unhealthy ends, the
\* session row says needs-qr, the tenant has no registry entry and no open
\* context, and the message follows the retry rule
C24_UnhealthyReleasedAndRetried ==
    [][\A j \in DOMAIN queue :
          (queue[j].pc = "catch" /\ queue[j].cause = "health" /\ queue'[j].pc # "catch") =>
              /\ sessions'[queue[j].tenant].status = "needs-qr"
              /\ registry'[queue[j].tenant] = NoHandle
              /\ \A h \in HandleIds :
                    handles'[h].tenant = queue[j].tenant => ~handles'[h].live
              /\ RetryRuleApplied(j)]_vars

\* C26: when a session-connect job ends with the session row set to error
\* (probe error, no pairing code, or the catch branch), the tenant has no
\* registry entry and none of its clients has an open context
C26_ConnectErrorReleasesHandle ==
    [][\A i \in DOMAIN connects :
          (/\ connects[i].pc \in {"probe", "catch"}
           /\ connects'[i].pc = "done"
           /\ sessions'[connects[i].tenant].status = "error") =>
              /\ registry'[connects[i].tenant] = NoHandle
              /\ \A h \in HandleIds :
                    handles'[h].tenant = connects[i].tenant => ~handles'[h].live]_vars

PollPcs == {"poll-first", "polling"}

C28_RejectedStartChangesNothing ==
    [][\A c \in CampaignIds :
          (\/ campaigns[c].status \notin {"draft", "scheduled", "paused"}
           \/ sessions[campaigns[c].tenant].status # "connected"
           \/ ClaimEligible(c) = {}) =>
              /\ messages' \in {messages,
                                [i \in DOMAIN messages |->
                                    IF messages[i].status = "queued"
                                    THEN [messages[i] EXCEPT !.status = "cancelled"]
                                    ELSE messages[i]]}
              /\ queue' = queue
              /\ \/ campaigns'[c] = campaigns[c]
                 \/ /\ campaigns[c].status = "running"
                    /\ campaigns'[c] = [campaigns[c] EXCEPT !.status = "paused"]]_vars

\* a campaign that was started and is running: a further start request is
\* refused for its status alone
C28_Witness ==
    \E c \in CampaignIds :
        /\ campaigns[c].status = "running"
        /\ campaigns[c].total_recipients >= 1
        /\ Len(messages) >= 1
        /\ sessions[campaigns[c].tenant].status = "connected"
        /\ ClaimEligible(c) # {}

\* C29: a step that sets a campaign to paused or cancels a message starts from
\* a running campaign, changes of the campaign row only the status, turns
\* exactly the campaign's queued messages into cancelled ones and leaves every
\* other message, the jobs, the sessions and the worker's state as they were
C29_PauseFrame ==
    [][\A c \in CampaignIds :
          (\/ campaigns'[c].status = "paused" /\ campaigns[c].status # "paused"
           \/ \E m \in DOMAIN messages :
                 /\ messages[m].campaign = c
                 /\ messages'[m].status = "cancelled"
                 /\ messages[m].status # "cancelled") =>
              /\ campaigns[c].status = "running"
              /\ campaigns'[c] = [campaigns[c] EXCEPT !.status = "paused"]
              /\ DOMAIN messages' = DOMAIN messages
              /\ \A m \in DOMAIN messages :
                    messages'[m] =
                        IF messages[m].campaign = c /\ messages[m].status = "queued"
                        THEN [messages[m] EXCEPT !.status = "cancelled"]
                        ELSE messages[m]
              /\ UNCHANGED <<internal, starts, contacts, sessions, queue, registry, handles, leaked,
                             connects, scratch>>]_vars

\* a paused campaign with a cancelled message beside one that a job had taken
C29_Witness ==
    \E c \in CampaignIds :
        /\ campaigns[c].status = "paused"
        /\ \E m \in DOMAIN messages :
              messages[m].campaign = c /\ messages[m].status = "cancelled"
        /\ \E m \in DOMAIN messages :
              messages[m].campaign = c /\ messages[m].status \in {"sending", "sent", "failed"}

\* the phases of a send-message handler in which it calls the driver: launch,
\* detectState, checkHealth, sendText and sendImage
DriverPcs == {"acquire", "probe", "health", "send"}

\* C31: the step that hands a job to its handler sets the message to sending
\* and adds exactly one to attempts, and in every phase in which the handler
\* calls the driver the message is in sending with this execution counted
\* (attempts is one more than the number of executions that threw before)
C31_MarkedBeforeDriverCalls ==
    [][\A j \in DOMAIN queue :
          LET m == queue[j].messageId IN
          /\ (queue[j].pc = "waiting" /\ queue'[j].pc # "waiting") =>
                /\ queue'[j].pc = "acquire"
                /\ messages'[m].status = "sending"
                /\ messages'[m].attempts = messages[m].attempts + 1
          /\ queue[j].pc \in DriverPcs =>
                /\ messages[m].status = "sending"
                /\ messages[m].attempts = queue[j].retrycount + 1]_vars

\* a second execution of a job is about to call sendText or sendImage
C31_Witness ==
    \E j \in DOMAIN queue :
        /\ queue[j].pc = "send"
        /\ queue[j].retrycount = 1
        /\ messages[queue[j].messageId].status = "sending"
        /\ messages[queue[j].messageId].attempts = 2

\* C32: a request to the internal endpoint whose header is not the deployment's
\* key changes no session row and broadcasts no status event
C32_UnauthenticatedUpdateRejected ==
    [][internal'.header # "secret" =>
          sessions' = sessions /\ ~internal'.emitted]_vars

(* the value the contact has for a custom field, "" when the contact lacks it *)
FieldValue(contact, key) ==
    IF \E i \in DOMAIN contact.custom_fields : contact.custom_fields[i][1] = key
    THEN LET i == CHOOSE i \in DOMAIN contact.custom_fields : contact.custom_fields[i][1] = key
         IN contact.custom_fields[i][2]
    ELSE ""

\* C33: the body of every message created by start is the campaign template with
\* each {name}/{nome} replaced by the contact's name and each custom-field
\* placeholder replaced by the contact's value, taken literally, or by the empty
\* string when the contact lacks the field
C33_RenderedLiterally ==
    \A m \in DOMAIN messages :
        LET tpl == campaigns[messages[m].campaign].template_text
            contact == contacts[messages[m].contact]
        IN messages[m].body_text =
              [i \in DOMAIN tpl |->
                  IF tpl[i] \in NamePlaceholders THEN contact.name
                  ELSE IF \E key \in FieldKeys : tpl[i] = Placeholder(key)
                       THEN FieldValue(contact, CHOOSE key \in FieldKeys : tpl[i] = Placeholder(key))
                       ELSE tpl[i]]

\* the disconnect jobs of tenant t have all completed, and there is one
DisconnectCompleted(t) ==
    /\ \E i \in DOMAIN disconnects : disconnects[i].tenant = t
    /\ \A i \in DOMAIN disconnects : disconnects[i].tenant = t => disconnects[i].pc = "done"

\* C34: once a disconnect job of a tenant has completed, with the row
\* disconnected, the registry entry gone and no connect job left waiting in the
\* queue, every step that issues no connect request leaves the row disconnected
\* and the registry without an entry: connect jobs and pairing polls started
\* earlier write nothing
C34_DisconnectedStays ==
    [][\A t \in Tenants :
          (/\ DisconnectCompleted(t)
           /\ sessions[t].status = "disconnected"
           /\ registry[t] = NoHandle
           /\ \A i \in DOMAIN connects :
                 connects[i].tenant = t => connects[i].pc # "waiting"
           /\ Len(connects') = Len(connects)
           /\ Len(disconnects') = Len(disconnects))
          => /\ sessions'[t].status = "disconnected"
             /\ registry'[t] = NoHandle]_vars

\* the steps of a send job that hold the tenant's handle: from getSession to
\* the return of sendText / sendImage
HoldingPcs == {"probe", "health", "send"}

\* C35: while a send job holds its tenant's handle, no step of a connect job,
\* of a disconnect job or of the health audit closes that handle
C35_HeldHandleNotClosed ==
    [][\A j \in DOMAIN queue :
          (/\ queue[j].pc \in HoldingPcs
           /\ queue[j].client # NoHandle
           /\ handles[queue[j].client].live
           /\ queue'[j].pc = queue[j].pc
           /\ (connects' # connects \/ disconnects' # disconnects \/ audit' # audit))
          => /\ queue'[j].client # NoHandle
             /\ handles'[queue'[j].client].live]_vars

\* the messages of campaign c for contact k that are not cancelled
LiveMessages(c, k) ==
    {m \in DOMAIN messages :
        /\ messages[m].campaign = c
        /\ messages[m].contact = k
        /\ messages[m].status # "cancelled"}

\* C36: whatever starts and pauses a campaign has seen, each contact has at most
\* one message of the campaign that is not cancelled
C36_OneLiveMessagePerContact ==
    \A c \in CampaignIds, k \in ContactIds : Cardinality(LiveMessages(c, k)) <= 1

\* the messages of campaign c
CampaignMessages(c) == {m \in DOMAIN messages : messages[m].campaign = c}

\* C37: start requests handled concurrently create at most one message and one
\* send job per contact, and once they are all answered total_recipients is the
\* number of messages created
C37_ExpandedOnce ==
    \A c \in CampaignIds :
        /\ \A k \in ContactIds :
              /\ Cardinality({m \in CampaignMessages(c) : messages[m].contact = k}) <= 1
              /\ Cardinality({j \in DOMAIN queue :
                                 messages[queue[j].messageId].campaign = c
                                 /\ messages[queue[j].messageId].contact = k}) <= 1
        /\ (starts # <<>> /\ \A i \in DOMAIN starts : starts[i].pc = "done")
              => campaigns[c].total_recipients = Cardinality(CampaignMessages(c))

\* C38: a completed campaign has no message that is queued or being sent
C38_CompletedHasNoPending ==
    \A c \in CampaignIds :
        campaigns[c].status = "completed" =>
            \A m \in CampaignMessages(c) : messages[m].status \notin {"queued", "sending"}

\* C39: no step changes the status of a campaign that is completed
C39_CompletedIsFinal ==
    [][\A c \in CampaignIds :
          campaigns[c].status = "completed" => campaigns'[c].status = "completed"]_vars

\* a step of the send job j, of the connect job or pairing poll i, of the
\* disconnect job i, and of the health audit on the row of tenant t
SendJobOf(j) ==
    \/ JobBegin(j) \/ JobAcquire(j) \/ JobProbe(j) \/ JobHealth(j)
    \/ JobSend(j) \/ JobCheck(j) \/ JobComplete(j) \/ JobCatch(j)

ConnectJobOf(i) ==
    \/ ConnectAcquire(i) \/ ConnectLaunch(i) \/ ConnectProbe(i) \/ ConnectCatch(i)
    \/ PollStep(i) \/ PollTimeout(i)

DisconnectJobOf(i) == DisconnectRun(i) \/ DisconnectNotify(i)

AuditOf(t) ==
    \/ AuditRow /\ t \in audit.rows /\ t \notin audit'.rows
    \/ (AuditNotify \/ AuditRelease) /\ audit.tenant = t

\* a worker step performed for tenant a
StepFor(a) ==
    \/ \E j \in DOMAIN queue : queue[j].tenant = a /\ SendJobOf(j)
    \/ \E i \in DOMAIN connects : connects[i].tenant = a /\ ConnectJobOf(i)
    \/ \E i \in DOMAIN disconnects : disconnects[i].tenant = a /\ DisconnectJobOf(i)
    \/ AuditOf(a)

\* what the registry holds for tenant b: no entry, or a client in some state
RegistryEntry(reg, hs, b) == IF reg[b] = NoHandle THEN <<>> ELSE <<hs[reg[b]]>>

\* the step leaves the session row, the registry entry, the messages and the
\* campaigns of tenant b as they are
TenantUnchanged(b) ==
    /\ sessions'[b] = sessions[b]
    /\ RegistryEntry(registry', handles', b) = RegistryEntry(registry, handles, b)
    /\ {m \in DOMAIN messages' : messages'[m].tenant = b}
          = {m \in DOMAIN messages : messages[m].tenant = b}
    /\ \A m \in DOMAIN messages : messages[m].tenant = b => messages'[m] = messages[m]
    /\ \A c \in CampaignIds : campaigns[c].tenant = b => campaigns'[c] = campaigns[c]

====
